---- MODULE Spec2Model ----
(***************************************************************************)
(* Model of Log.log (src/src/log.ts): streaming the log of a container    *)
(* from the cluster API server into a caller-owned Writable.               *)
(*                                                                         *)
(* Every invocation of log() is one entry of the per-call functions below. *)
(* The collaborators (KubeConfig, the request transport, ObjectSerializer) *)
(* are the environment: their events are the actions that run the two      *)
(* handlers log() installs, the completion callback (lines 104-118) and    *)
(* the 'response' listener (lines 119-124).                                *)
(*                                                                         *)
(* JavaScript values are tagged records; the field t is the tag.           *)
(***************************************************************************)
EXTENDS Integers, Sequences, FiniteSets, TLC

\* ---------------------------------------------------------------- bounds

\* Longest response body, in characters, the transport delivers.
MaxBody == 2

\* The invocations of log() on the one Log instance.
Calls == {1, 2}

\* The invocation used when the arguments range over ReqArgs.
ReqCalls == {1}

\* ---------------------------------------------------------------- values

Null == [t |-> "null"]

Undefined == [t |-> "undefined"]

Bool(b) == [t |-> "boolean", bool |-> b]

Num(n) == [t |-> "number", num |-> n]

Str(s) == [t |-> "string", str |-> s]

\* A callable value; name tells two functions apart.
Fn(name) == [t |-> "function", name |-> name]

\* An object literal; props maps its own enumerable keys to values.
Obj(props) == [t |-> "object", props |-> props]

EmptyProps == [k \in {} |-> Undefined]

\* typeof v === 'function'
IsFunction(v) == v.t = "function"

\* !v for the values a cluster lookup returns
Falsy(v) == v.t \in {"null", "undefined"}

\* The characters a response body is made of.
Chars == {"{", "}", "1"}

\* The status codes the server answers with.
Statuses == {200, 201, 404}

\* Errors the transport reports.
TransportErrors == {[t |-> "TransportError", code |-> "ECONNRESET"],
                    [t |-> "TransportError", code |-> "ENOTFOUND"]}

\* The failure of KubeConfig.applyToRequest.
ApplyErrors == {[t |-> "ApplyError", message |-> "no credentials"]}

\* What KubeConfig.getCurrentCluster() can return.
Clusters == {Null, [t |-> "cluster", server |-> "https://k1"]}

\* The same, with a second server, where request construction is explored.
ReqClusters == Clusters \cup {[t |-> "cluster", server |-> "http://k2:8080"]}

\* LogOptions objects a caller passes (or leaves out).
OptionValues == {Undefined,
                 Obj(EmptyProps),
                 Obj([k \in {"follow"} |-> Bool(TRUE)]),
                 Obj([k \in {"follow", "tailLines"} |->
                        IF k = "follow" THEN Undefined ELSE Num(5)]),
                 Obj([k \in {"container", "previous"} |->
                        IF k = "container" THEN Str("other") ELSE Bool(FALSE)])}

\* Arguments of the invocations whose transport events are explored.
CallArgs == [namespace : {"default"}, podName : {"web-0"},
             containerName : {"app"},
             doneOrOptions : {Fn("done"), Obj([k \in {"follow"} |-> Bool(TRUE)])},
             options : {Undefined}]

\* Arguments of the invocations whose request construction is explored.
ReqArgs == [namespace : {"default", "a/b"}, podName : {"web-0", "p q"},
            containerName : {"app", "web-0"},
            doneOrOptions : OptionValues \cup {Fn("done")},
            options : OptionValues]

\* ---------------------------------------------------------------- state

VARIABLES
    cluster,       \* what config.getCurrentCluster() returns
    pc,            \* position of each invocation
    args,          \* the arguments each invocation was called with
    callerOptions, \* the caller's options object as it is after the call
    done,          \* the local variable done of each invocation
    reqOptions,    \* the request descriptor requestOptions
    applyCalls,    \* number of calls of config.applyToRequest
    httpRequests,  \* number of calls of request()
    result,        \* the promise log() returns
    doneLog,       \* the values done was called with, in order
    status,        \* statusCode of the response, 0 before the headers
    respBody,      \* response body the transport has received
    piped,         \* req.pipe(stream) was called
    sink,          \* what was written to stream
    sinkEnded,     \* stream.end() was called
    completion     \* the arguments the transport called the callback with

vars == <<cluster, pc, args, callerOptions, done, reqOptions, applyCalls,
          httpRequests, result, doneLog, status, respBody, piped, sink,
          sinkEnded, completion>>

Pending == [state |-> "pending", value |-> Undefined]

NotCalled == [t |-> "notcalled"]

NoCompletion == [t |-> "none"]

\* No invocation yet on a Log instance whose configuration is one of cls.
InitOn(cls) ==
    /\ cluster \in cls
    /\ pc = [c \in Calls |-> "idle"]
    /\ args = [c \in Calls |-> NotCalled]
    /\ callerOptions = [c \in Calls |-> Undefined]
    /\ done = [c \in Calls |-> Undefined]
    /\ reqOptions = [c \in Calls |-> Undefined]
    /\ applyCalls = [c \in Calls |-> 0]
    /\ httpRequests = [c \in Calls |-> 0]
    /\ result = [c \in Calls |-> Pending]
    /\ doneLog = [c \in Calls |-> <<>>]
    /\ status = [c \in Calls |-> 0]
    /\ respBody = [c \in Calls |-> <<>>]
    /\ piped = [c \in Calls |-> FALSE]
    /\ sink = [c \in Calls |-> <<>>]
    /\ sinkEnded = [c \in Calls |-> FALSE]
    /\ completion = [c \in Calls |-> NoCompletion]

Init == InitOn(Clusters)

InitReq == InitOn(ReqClusters)

\* ---------------------------------------------------------------- promise

\* resolve(v) of a promise: only the first settlement takes effect.
Resolve(p, v) ==
    IF p.state = "pending" THEN [state |-> "resolved", value |-> v] ELSE p

\* reject(e) of a promise: only the first settlement takes effect.
Reject(p, e) ==
    IF p.state = "pending" THEN [state |-> "rejected", value |-> e] ELSE p

\* ---------------------------------------------------------------- log()

\* The default of the local variable done: () => undefined.
NoOp == Fn("noop")

\* Lines 78-83: the completion callback log() uses.
DispatchDone(a) ==
    IF IsFunction(a.doneOrOptions) THEN a.doneOrOptions ELSE NoOp

\* Variant of DispatchOptions: a sixth argument is used whenever there is
\* one (options = options || doneOrOptions).
DispatchOptions_PreferSixth(a) ==
    IF IsFunction(a.doneOrOptions) \/ a.options.t = "object"
    THEN a.options ELSE a.doneOrOptions

\* Lines 78-83: the options log() uses.
DispatchOptions(a) ==
    IF IsFunction(a.doneOrOptions) THEN a.options ELSE a.doneOrOptions

\* encodeURIComponent on the identifiers of ReqArgs.
Escape(id) ==
    IF id = "a/b" THEN "a%2Fb" ELSE IF id = "p q" THEN "p%20q" ELSE id

\* Variant of Path: the identifiers are escaped before they are substituted.
Path_Escaped(namespace, podName) ==
    "/api/v1/namespaces/" \o Escape(namespace) \o "/pods/" \o Escape(podName)
        \o "/log"

\* Line 85: the path of the log endpoint.
Path(namespace, podName) ==
    "/api/v1/namespaces/" \o namespace \o "/pods/" \o podName \o "/log"

\* Line 96: ...options copies the own properties of an object, none of
\* undefined.
Spread(options) ==
    IF options.t = "object" THEN options.props ELSE EmptyProps

\* Variant of BuildQs: container is written first, so a container key of
\* options overrides it ({container: containerName, ...options}).
BuildQs_OptionsLast(options, containerName) ==
    LET base == Spread(options)
    IN  [k \in (DOMAIN base) \cup {"container"} |->
            IF k \in DOMAIN base THEN base[k] ELSE Str(containerName)]

\* Lines 95-98: the query parameters.
BuildQs(options, containerName) ==
    LET base == Spread(options)
    IN  [k \in (DOMAIN base) \cup {"container"} |->
            IF k = "container" THEN Str(containerName) ELSE base[k]]

\* Lines 91-100: the request descriptor.
RequestOptions(cl, a) ==
    [method |-> "GET",
     qs |-> BuildQs(DispatchOptions(a), a.containerName),
     uri |-> cl.server \o Path(a.namespace, a.podName),
     auth |-> "none"]

\* The Error thrown at line 89.
NoClusterError == [t |-> "Error", message |-> "No currently active cluster"]

\* KubeConfig.applyToRequest: decorates the descriptor with credentials.
ApplyToRequest(opts) == [opts EXCEPT !.auth = "applied"]

\* Variant of LogBody: applyToRequest is called before the cluster is looked
\* at.
LogBody_ApplyFirst(c, a) ==
    /\ pc[c] = "idle"
    /\ args' = [args EXCEPT ![c] = a]
    /\ done' = [done EXCEPT ![c] = DispatchDone(a)]
    /\ callerOptions' = [callerOptions EXCEPT ![c] = DispatchOptions(a)]
    /\ applyCalls' = [applyCalls EXCEPT ![c] = @ + 1]
    /\ IF Falsy(cluster)
       THEN /\ pc' = [pc EXCEPT ![c] = "thrown"]
            /\ result' = [result EXCEPT ![c] = Reject(result[c], NoClusterError)]
            /\ UNCHANGED reqOptions
       ELSE /\ pc' = [pc EXCEPT ![c] = "applying"]
            /\ reqOptions' = [reqOptions EXCEPT ![c] = RequestOptions(cluster, a)]
            /\ UNCHANGED result
    /\ UNCHANGED <<cluster, httpRequests, doneLog, status, respBody, piped,
                   sink, sinkEnded, completion>>

\* Variant of LogBody: applyToRequest is not awaited, so the request is
\* issued in the step of the call, on a descriptor without credentials.
LogBody_NoAwait(c, a) ==
    /\ pc[c] = "idle"
    /\ args' = [args EXCEPT ![c] = a]
    /\ done' = [done EXCEPT ![c] = DispatchDone(a)]
    /\ callerOptions' = [callerOptions EXCEPT ![c] = DispatchOptions(a)]
    /\ IF Falsy(cluster)
       THEN /\ pc' = [pc EXCEPT ![c] = "thrown"]
            /\ result' = [result EXCEPT ![c] = Reject(result[c], NoClusterError)]
            /\ UNCHANGED <<reqOptions, applyCalls, httpRequests>>
       ELSE /\ pc' = [pc EXCEPT ![c] = "requested"]
            /\ reqOptions' = [reqOptions EXCEPT ![c] = RequestOptions(cluster, a)]
            /\ applyCalls' = [applyCalls EXCEPT ![c] = @ + 1]
            /\ httpRequests' = [httpRequests EXCEPT ![c] = @ + 1]
            /\ UNCHANGED result
    /\ UNCHANGED <<cluster, doneLog, status, respBody, piped, sink, sinkEnded,
                   completion>>

\* Lines 78-101: log() called with arguments a, up to its await.
LogBody(c, a) ==
    /\ pc[c] = "idle"
    /\ args' = [args EXCEPT ![c] = a]
    /\ done' = [done EXCEPT ![c] = DispatchDone(a)]
    /\ callerOptions' = [callerOptions EXCEPT ![c] = DispatchOptions(a)]
    /\ IF Falsy(cluster)
       THEN /\ pc' = [pc EXCEPT ![c] = "thrown"]
            /\ result' = [result EXCEPT ![c] = Reject(result[c], NoClusterError)]
            /\ UNCHANGED <<reqOptions, applyCalls>>
       ELSE /\ pc' = [pc EXCEPT ![c] = "applying"]
            /\ reqOptions' = [reqOptions EXCEPT ![c] = RequestOptions(cluster, a)]
            /\ applyCalls' = [applyCalls EXCEPT ![c] = @ + 1]
            /\ UNCHANGED result
    /\ UNCHANGED <<cluster, httpRequests, doneLog, status, respBody, piped,
                   sink, sinkEnded, completion>>

\* log() called by a caller whose transport events are explored.
Log(c) == \E a \in CallArgs : LogBody(c, a)

\* log() called with any of the arguments of ReqArgs.
LogReq(c) == \E a \in ReqArgs : LogBody(c, a)

\* Lines 101-104: applyToRequest completed; the promise is created and the
\* request is issued.
ApplyResolved(c) ==
    /\ pc[c] = "applying"
    /\ reqOptions' = [reqOptions EXCEPT ![c] = ApplyToRequest(@)]
    /\ httpRequests' = [httpRequests EXCEPT ![c] = @ + 1]
    /\ pc' = [pc EXCEPT ![c] = "requested"]
    /\ UNCHANGED <<cluster, args, callerOptions, done, applyCalls, result,
                   doneLog, status, respBody, piped, sink, sinkEnded,
                   completion>>

\* Variant of ApplyRejected: the request was issued without waiting for
\* applyToRequest, so it is out when the failure arrives.
ApplyRejected_StillRequests(c) ==
    /\ pc[c] = "applying"
    /\ \E e \in ApplyErrors :
          result' = [result EXCEPT ![c] = Reject(@, e)]
    /\ httpRequests' = [httpRequests EXCEPT ![c] = @ + 1]
    /\ pc' = [pc EXCEPT ![c] = "applyFailed"]
    /\ UNCHANGED <<cluster, args, callerOptions, done, reqOptions, applyCalls,
                   doneLog, status, respBody, piped, sink, sinkEnded,
                   completion>>

\* Line 101: applyToRequest failed; the await throws out of log().
ApplyRejected(c) ==
    /\ pc[c] = "applying"
    /\ \E e \in ApplyErrors :
          result' = [result EXCEPT ![c] = Reject(@, e)]
    /\ pc' = [pc EXCEPT ![c] = "applyFailed"]
    /\ UNCHANGED <<cluster, args, callerOptions, done, reqOptions, applyCalls,
                   httpRequests, doneLog, status, respBody, piped, sink,
                   sinkEnded, completion>>

\* ---------------------------------------------------------------- decoding

\* The body, as text, is the value Text(body).
Text(body) == [t |-> "text", text |-> body]

\* The digits of a number text, read in base ten.
RECURSIVE NumberValue(_)
NumberValue(s) ==
    IF Len(s) = 0 THEN 0 ELSE 10 * NumberValue(SubSeq(s, 1, Len(s) - 1)) + 1

\* JSON.parse over Chars: a text of digits is a number, {} is the empty
\* object, every other text is a SyntaxError.
JSONParse(s) ==
    IF Len(s) > 0 /\ \A i \in 1..Len(s) : s[i] = "1"
    THEN [ok |-> TRUE, value |-> Num(NumberValue(s))]
    ELSE IF s = <<"{", "}">>
         THEN [ok |-> TRUE, value |-> Obj(EmptyProps)]
         ELSE [ok |-> FALSE, value |-> Undefined]

\* ObjectSerializer.deserialize(data, 'V1Status'): a V1Status from a JSON
\* object, a failure on any other input.
Deserialize(data) ==
    IF data.t = "object"
    THEN [ok |-> TRUE, value |-> [t |-> "V1Status", props |-> data.props]]
    ELSE [ok |-> FALSE, value |-> Undefined]

\* new HttpError(response, body, statusCode)
HttpError(body, statusCode) ==
    [t |-> "HttpError", body |-> body, statusCode |-> statusCode]

\* Lines 109-114: the HttpError a response that is not 200 is rejected with.
StatusError(statusCode, body) ==
    LET parsed == JSONParse(body)
        decoded == IF parsed.ok THEN Deserialize(parsed.value) ELSE parsed
    IN  IF decoded.ok
        THEN HttpError(decoded.value, statusCode)
        ELSE HttpError(Text(body), statusCode)

\* ---------------------------------------------------------------- handlers

\* The request object request() returns to invocation c.
Handle(c) == [t |-> "request", id |-> c]

\* Variant of Callback: no catch around the decoding, so a body that does not
\* decode leaves the promise alone.
Callback_NoCatch(c, error, statusCode, body) ==
    IF error # Null
    THEN /\ result' = [result EXCEPT ![c] = Reject(@, error)]
         /\ doneLog' = [doneLog EXCEPT ![c] = Append(@, error)]
    ELSE IF statusCode # 200
         THEN /\ result' = [result EXCEPT ![c] =
                   IF StatusError(statusCode, body).body.t = "V1Status"
                   THEN Reject(@, StatusError(statusCode, body)) ELSE @]
              /\ doneLog' = [doneLog EXCEPT ![c] = Append(@, Text(body))]
         ELSE /\ doneLog' = [doneLog EXCEPT ![c] = Append(@, Null)]
              /\ UNCHANGED result

\* Variant of Callback: a transport error is wrapped in an HttpError.
Callback_WrapError(c, error, statusCode, body) ==
    IF error # Null
    THEN /\ result' = [result EXCEPT ![c] =
                          Reject(@, HttpError(error, statusCode))]
         /\ doneLog' = [doneLog EXCEPT ![c] = Append(@, error)]
    ELSE IF statusCode # 200
         THEN /\ result' = [result EXCEPT ![c] =
                               Reject(@, StatusError(statusCode, body))]
              /\ doneLog' = [doneLog EXCEPT ![c] = Append(@, Text(body))]
         ELSE /\ doneLog' = [doneLog EXCEPT ![c] = Append(@, Null)]
              /\ UNCHANGED result

\* Variant of Callback: done gets the body of the HttpError, decoded when it
\* decodes.
Callback_DoneDecoded(c, error, statusCode, body) ==
    IF error # Null
    THEN /\ result' = [result EXCEPT ![c] = Reject(@, error)]
         /\ doneLog' = [doneLog EXCEPT ![c] = Append(@, error)]
    ELSE IF statusCode # 200
         THEN /\ result' = [result EXCEPT ![c] =
                               Reject(@, StatusError(statusCode, body))]
              /\ doneLog' = [doneLog EXCEPT ![c] =
                                Append(@, StatusError(statusCode, body).body)]
         ELSE /\ doneLog' = [doneLog EXCEPT ![c] = Append(@, Null)]
              /\ UNCHANGED result

\* Lines 104-118: the completion callback (error, response, body).
Callback(c, error, statusCode, body) ==
    IF error # Null
    THEN /\ result' = [result EXCEPT ![c] = Reject(@, error)]
         /\ doneLog' = [doneLog EXCEPT ![c] = Append(@, error)]
    ELSE IF statusCode # 200
         THEN /\ result' = [result EXCEPT ![c] =
                               Reject(@, StatusError(statusCode, body))]
              /\ doneLog' = [doneLog EXCEPT ![c] = Append(@, Text(body))]
         ELSE /\ doneLog' = [doneLog EXCEPT ![c] = Append(@, Null)]
              /\ UNCHANGED result

\* Variant of OnResponse: the pipe is set up but resolve is left to the
\* completion callback.
OnResponse_NoResolve(c, statusCode) ==
    IF statusCode = 200
    THEN /\ piped' = [piped EXCEPT ![c] = TRUE]
         /\ UNCHANGED result
    ELSE UNCHANGED <<piped, result>>

\* Variant of OnResponse: the pipe is set up whatever the status.
OnResponse_AnyStatus(c, statusCode) ==
    /\ piped' = [piped EXCEPT ![c] = TRUE]
    /\ IF statusCode = 200
       THEN result' = [result EXCEPT ![c] = Resolve(@, Handle(c))]
       ELSE UNCHANGED result

\* Variant of OnResponse: resolve is kept in a field of the Log instance, so
\* the listener of one invocation settles every request that is in flight.
OnResponse_SharedResolve(c, statusCode) ==
    IF statusCode = 200
    THEN /\ piped' = [piped EXCEPT ![c] = TRUE]
         /\ result' = [d \in Calls |->
               IF d = c \/ pc[d] \in {"requested", "responded"}
               THEN Resolve(result[d], Handle(c)) ELSE result[d]]
    ELSE UNCHANGED <<piped, result>>

\* Variant of OnResponse: a status that is not 200 is rejected on the headers,
\* before the body has arrived.
OnResponse_RejectEarly(c, statusCode) ==
    IF statusCode = 200
    THEN /\ piped' = [piped EXCEPT ![c] = TRUE]
         /\ result' = [result EXCEPT ![c] = Resolve(@, Handle(c))]
    ELSE /\ result' = [result EXCEPT ![c] =
                          Reject(@, HttpError(Text(<<>>), statusCode))]
         /\ UNCHANGED piped

\* Variant of OnResponse: the status is compared with the string '200', which
\* no status code is identical to.
OnResponse_NeverMatches(c, statusCode) ==
    UNCHANGED <<piped, result>>

\* Lines 119-124: the 'response' listener.
OnResponse(c, statusCode) ==
    IF statusCode = 200
    THEN /\ piped' = [piped EXCEPT ![c] = TRUE]
         /\ result' = [result EXCEPT ![c] = Resolve(@, Handle(c))]
    ELSE UNCHANGED <<piped, result>>

\* Variant of Pipe: the chunk is put in front of what was written.
Pipe_Prepend(c, chunk) ==
    IF piped[c] THEN <<chunk>> \o sink[c] ELSE sink[c]

\* Line 121: what the pipe set up by req.pipe(stream) writes for a chunk.
Pipe(c, chunk) ==
    IF piped[c] THEN Append(sink[c], chunk) ELSE sink[c]

\* Line 121: req.pipe(stream) is called without {end: false}, so the pipe
\* calls stream.end() when the response ends.
PipeEnds(c) == piped[c]

\* ---------------------------------------------------------------- transport

\* The headers of the response arrive: 'response' is emitted.
Response(c) ==
    /\ pc[c] = "requested"
    /\ \E s \in Statuses :
          /\ status' = [status EXCEPT ![c] = s]
          /\ OnResponse(c, s)
    /\ pc' = [pc EXCEPT ![c] = "responded"]
    /\ UNCHANGED <<cluster, args, callerOptions, done, reqOptions, applyCalls,
                   httpRequests, doneLog, respBody, sink, sinkEnded,
                   completion>>

\* A chunk of the body arrives: it is buffered for the callback and goes
\* down the pipe.
Data(c) ==
    /\ pc[c] = "responded"
    /\ Len(respBody[c]) < MaxBody
    /\ \E ch \in Chars :
          /\ respBody' = [respBody EXCEPT ![c] = Append(@, ch)]
          /\ sink' = [sink EXCEPT ![c] = Pipe(c, ch)]
    /\ UNCHANGED <<cluster, pc, args, callerOptions, done, reqOptions,
                   applyCalls, httpRequests, result, doneLog, status, piped,
                   sinkEnded, completion>>

\* The response ends: 'complete' calls the callback with the whole body, and
\* the pipe ends its destination.
End(c) ==
    /\ pc[c] = "responded"
    /\ completion' = [completion EXCEPT ![c] =
          [t |-> "complete", error |-> Null, statusCode |-> status[c],
           body |-> respBody[c]]]
    /\ Callback(c, Null, status[c], respBody[c])
    /\ sinkEnded' = [sinkEnded EXCEPT ![c] = PipeEnds(c)]
    /\ pc' = [pc EXCEPT ![c] = "complete"]
    /\ UNCHANGED <<cluster, args, callerOptions, done, reqOptions, applyCalls,
                   httpRequests, status, respBody, piped, sink>>

\* The transport fails, before or after the headers: 'error' calls the
\* callback with the error alone.
RequestError(c) ==
    /\ pc[c] \in {"requested", "responded"}
    /\ \E e \in TransportErrors :
          /\ completion' = [completion EXCEPT ![c] =
                [t |-> "complete", error |-> e, statusCode |-> status[c],
                 body |-> <<>>]]
          /\ Callback(c, e, 0, <<>>)
    /\ pc' = [pc EXCEPT ![c] = "complete"]
    /\ UNCHANGED <<cluster, args, callerOptions, done, reqOptions, applyCalls,
                   httpRequests, status, respBody, piped, sink, sinkEnded>>

\* ---------------------------------------------------------------- specifications

Next ==
    \E c \in Calls :
        \/ Log(c)
        \/ ApplyResolved(c)
        \/ ApplyRejected(c)
        \/ Response(c)
        \/ Data(c)
        \/ End(c)
        \/ RequestError(c)

\* Two invocations under every interleaving of their events.
Spec == Init /\ [][Next]_vars

NextReq ==
    \E c \in ReqCalls :
        \/ LogReq(c)
        \/ ApplyResolved(c)
        \/ ApplyRejected(c)
        \/ Response(c)
        \/ Data(c)
        \/ End(c)
        \/ RequestError(c)

\* One invocation over every argument list of ReqArgs.
SpecReq == InitReq /\ [][NextReq]_vars

\* ---------------------------------------------------------------- claims

\* The invocation is over: it threw, its await threw, or the transport
\* called the completion callback.
Over(c) == pc[c] \in {"thrown", "applyFailed", "complete"}

\* The caller passed a completion callback.
DoneSupplied(c) == args[c] # NotCalled /\ IsFunction(args[c].doneOrOptions)

\* C1: every invocation ends in one terminal outcome. Once the invocation is
\* over the promise is no longer pending, a resolved promise holds the
\* request handle, a rejected one an error, and a settled promise never
\* changes again, whatever the transport does afterwards.
C1_OneTerminalOutcome ==
    /\ [](\A c \in Calls :
            /\ Over(c) => result[c].state \in {"resolved", "rejected"}
            /\ result[c].state = "resolved" => result[c].value = Handle(c)
            /\ result[c].state = "rejected" =>
                  result[c].value.t \in {"Error", "ApplyError",
                                         "TransportError", "HttpError"})
    /\ [][\A c \in Calls :
            result[c].state # "pending" => result'[c] = result[c]]_vars

\* The promise was resolved on the headers and the transport failed
\* afterwards: reject was called on a resolved promise.
C1_Witness ==
    \E c \in Calls :
        /\ completion[c].t = "complete"
        /\ completion[c].error # Null
        /\ result[c].state = "resolved"

\* C2: a completion callback the caller passed is called exactly once per
\* invocation, with null on success and with an error value on every failure,
\* the missing cluster and the failure of applyToRequest included.
C2_DoneExactlyOnce ==
    \A c \in Calls :
        DoneSupplied(c) =>
            /\ Len(doneLog[c]) <= 1
            /\ Over(c) =>
                  /\ Len(doneLog[c]) = 1
                  /\ (doneLog[c][1] = Null) <=>
                        /\ completion[c].t = "complete"
                        /\ completion[c].error = Null
                        /\ completion[c].statusCode = 200

\* C3: nothing is written to the sink unless the headers said 200: not on
\* another status, and not when the transport failed before the headers.
C3_NoBytesUnless200 ==
    \A c \in Calls :
        status[c] # 200 => sink[c] = <<>> /\ ~piped[c]

\* A response that is not 200 whose body has arrived, and an invocation whose
\* transport failed before the headers.
C3_Witness ==
    /\ \E c \in Calls : status[c] = 404 /\ Len(respBody[c]) > 0
    /\ \E c \in Calls :
          /\ completion[c].t = "complete"
          /\ completion[c].error # Null
          /\ status[c] = 0

\* C4: without a current cluster log() fails in the step of the call with
\* the Error 'No currently active cluster', and neither applyToRequest nor
\* request() is called.
C4_NoClusterFailsAtOnce ==
    \A c \in Calls :
        (args[c] # NotCalled /\ Falsy(cluster)) =>
            /\ pc[c] = "thrown"
            /\ result[c] = [state |-> "rejected", value |-> NoClusterError]
            /\ applyCalls[c] = 0
            /\ httpRequests[c] = 0
            /\ reqOptions[c] = Undefined

\* log() was called on a configuration that has no current cluster.
C4_Witness ==
    \E c \in Calls : pc[c] = "thrown" /\ Falsy(cluster)

\* The transport completed invocation c without an error.
Completed(c) == completion[c].t = "complete" /\ completion[c].error = Null

\* The transport completed invocation c with an error.
Failed(c) == completion[c].t = "complete" /\ completion[c].error # Null

\* C5: a completion without transport error on a status that is not 200
\* rejects with an HttpError of that status; its body is the V1Status when the
\* body parses and deserializes, and the body text when either fails. The
\* rejection happens in both cases.
C5_Non200RejectsHttpError ==
    \A c \in Calls :
        (Completed(c) /\ completion[c].statusCode # 200) =>
            LET body == completion[c].body
                parsed == JSONParse(body)
                decodes == parsed.ok /\ Deserialize(parsed.value).ok
            IN  /\ result[c].state = "rejected"
                /\ result[c].value.t = "HttpError"
                /\ result[c].value.statusCode = completion[c].statusCode
                /\ decodes =>
                      result[c].value.body = Deserialize(parsed.value).value
                /\ ~decodes => result[c].value.body = Text(body)
                /\ body = <<"{", "}">> => result[c].value.body.t = "V1Status"
                /\ body \in {<<>>, <<"1">>, <<"{">>} =>
                      result[c].value.body.t = "text"

\* One invocation rejected with a decoded V1Status, another with the text of
\* a body that parses but does not deserialize.
C5_Witness ==
    /\ \E c \in Calls :
          /\ Completed(c) /\ completion[c].statusCode = 404
          /\ result[c].state = "rejected"
          /\ result[c].value.t = "HttpError"
          /\ result[c].value.body.t = "V1Status"
    /\ \E c \in Calls :
          /\ Completed(c) /\ completion[c].statusCode = 201
          /\ completion[c].body = <<"1">>
          /\ result[c].state = "rejected"
          /\ result[c].value.t = "HttpError"
          /\ result[c].value.body = Text(<<"1">>)

\* C6: a transport error before any headers rejects with that error itself,
\* not with an HttpError, and the sink stays empty.
C6_TransportErrorBeforeHeaders ==
    \A c \in Calls :
        (Failed(c) /\ status[c] = 0) =>
            /\ result[c] = [state |-> "rejected", value |-> completion[c].error]
            /\ result[c].value.t # "HttpError"
            /\ sink[c] = <<>>

\* Two invocations failed before their headers, each with its own error.
C6_Witness ==
    \E c1, c2 \in Calls :
        /\ Failed(c1) /\ status[c1] = 0
        /\ Failed(c2) /\ status[c2] = 0
        /\ result[c1].state = "rejected"
        /\ result[c2].state = "rejected"
        /\ result[c1].value # result[c2].value

\* C7: on headers with status 200 the promise is resolved with the request
\* handle there and then, before the completion, and every body character the
\* transport delivers afterwards reaches the sink in order: the sink holds the
\* response body.
C7_Streams200 ==
    \A c \in Calls :
        status[c] = 200 =>
            /\ result[c] = [state |-> "resolved", value |-> Handle(c)]
            /\ sink[c] = respBody[c]

\* Before the completion, two different characters of a 200 body are in the
\* sink.
C7_Witness ==
    \E c \in Calls :
        /\ pc[c] = "responded"
        /\ status[c] = 200
        /\ Len(sink[c]) = 2
        /\ sink[c][1] # sink[c][2]

\* C8: the completion callback is called with null on a completion with
\* status 200 and no error, with the transport error when the transport
\* failed, and with the body text as received when the status is not 200;
\* by then the promise is settled as well.
C8_DoneValue ==
    \A c \in Calls :
        completion[c].t = "complete" =>
            /\ Len(doneLog[c]) = 1
            /\ doneLog[c][1] =
                  IF completion[c].error # Null THEN completion[c].error
                  ELSE IF completion[c].statusCode # 200
                       THEN Text(completion[c].body)
                       ELSE Null
            /\ result[c].state # "pending"

\* One invocation whose callback got null, another whose callback got the
\* text of a body that decodes.
C8_Witness ==
    /\ \E c \in Calls :
          /\ DoneSupplied(c)
          /\ doneLog[c] = <<Null>>
          /\ result[c].state = "resolved"
    /\ \E c \in Calls :
          /\ DoneSupplied(c)
          /\ doneLog[c] = <<Text(<<"{", "}">>)>>
          /\ result[c].state = "rejected"

\* The keys options objects and query parameters are made of.
OptionKeys ==
    {"container", "follow", "limitBytes", "pretty", "previous",
     "sinceSeconds", "tailLines", "timestamps"}

\* C9: the query parameters are the defined fields of the options log() uses
\* plus container; container is the containerName argument even when options
\* has a container key of its own; the caller's options object is as it was
\* passed.
C9_QueryParameters ==
    \A c \in Calls :
        reqOptions[c] # Undefined =>
            LET options == IF IsFunction(args[c].doneOrOptions)
                           THEN args[c].options ELSE args[c].doneOrOptions
                props == IF options.t = "object" THEN options.props
                         ELSE EmptyProps
                qs == reqOptions[c].qs
            IN  /\ DOMAIN qs \subseteq OptionKeys
                /\ \A k \in OptionKeys \ {"container"} :
                      (k \in DOMAIN qs /\ qs[k] # Undefined) <=>
                         (k \in DOMAIN props /\ props[k] # Undefined)
                /\ \A k \in (DOMAIN qs) \ {"container"} : qs[k] = props[k]
                /\ "container" \in DOMAIN qs
                /\ qs["container"] = Str(args[c].containerName)
                /\ callerOptions[c] = options

\* A request was issued for options that have a container key of their own.
C9_Witness ==
    \E c \in Calls :
        /\ httpRequests[c] = 1
        /\ callerOptions[c].t = "object"
        /\ "container" \in DOMAIN callerOptions[c].props
        /\ callerOptions[c].props["container"] # Str(args[c].containerName)

\* C10: the request is a GET of the server URL of the cluster followed by
\* /api/v1/namespaces/{namespace}/pods/{podName}/log with namespace and
\* podName as they were passed; containerName is no part of it.
C10_RequestUri ==
    \A c \in Calls :
        reqOptions[c] # Undefined =>
            /\ reqOptions[c].method = "GET"
            /\ reqOptions[c].uri =
                  cluster.server \o "/api/v1/namespaces/"
                      \o args[c].namespace \o "/pods/" \o args[c].podName
                      \o "/log"

\* A request was issued for a namespace and a pod name that escaping would
\* change.
C10_Witness ==
    \E c \in Calls :
        /\ httpRequests[c] = 1
        /\ args[c].namespace = "a/b"
        /\ args[c].podName = "p q"
        /\ reqOptions[c].uri = "http://k2:8080/api/v1/namespaces/a/b/pods/p q/log"

\* C11: log() only writes to the caller's sink: on no path, the end of a 200
\* body included, is the sink ended or closed.
C11_SinkLifecycleUntouched ==
    \A c \in Calls : ~sinkEnded[c]

\* C12: at most one HTTP request per invocation: one once the cluster was
\* found and applyToRequest completed, none otherwise; a transport error or a
\* status that is not 200 issues no further request.
C12_OneRequest ==
    /\ [](\A c \in Calls :
            httpRequests[c] =
                IF pc[c] \in {"requested", "responded", "complete"}
                THEN 1 ELSE 0)
    /\ [][\A c \in Calls :
            (pc'[c] = "complete" /\ pc[c] # "complete") =>
                httpRequests'[c] = httpRequests[c]]_vars

\* One invocation failed on its transport after its one request, another
\* completed on a 404 after its one request, and neither asked again.
C12_Witness ==
    /\ \E c \in Calls : Failed(c) /\ httpRequests[c] = 1
    /\ \E c \in Calls :
          /\ Completed(c)
          /\ completion[c].statusCode = 404
          /\ httpRequests[c] = 1

\* What invocation c holds: every variable at c.
Own(c) ==
    <<pc[c], args[c], callerOptions[c], done[c], reqOptions[c], applyCalls[c],
      httpRequests[c], result[c], doneLog[c], status[c], respBody[c],
      piped[c], sink[c], sinkEnded[c], completion[c]>>

\* The events invocation c has seen: its call, the outcome of applyToRequest,
\* its headers, its body and its completion.
Events(c) ==
    <<pc[c], args[c], status[c], respBody[c], completion[c]>>

\* C13: two invocations on one Log instance share no mutable state. A step
\* that brings no event to an invocation changes nothing it holds, and under
\* every interleaving two invocations that have seen the same events have the
\* same outcome: the same settlement, the same callback argument, the same
\* bytes in their sinks.
C13_Independent ==
    /\ [](\A c1, c2 \in Calls :
            Events(c1) = Events(c2) =>
                /\ result[c1].state = result[c2].state
                /\ (result[c1].state = "rejected" =>
                       result[c1].value = result[c2].value)
                /\ doneLog[c1] = doneLog[c2]
                /\ sink[c1] = sink[c2])
    /\ [][\A c \in Calls : Events(c)' = Events(c) => Own(c)' = Own(c)]_vars

\* Both invocations are past their headers with different answers: one
\* streams a 200 body, the other was rejected for a 404.
C13_Witness ==
    \E c1, c2 \in Calls :
        /\ pc[c1] = "responded" /\ status[c1] = 200 /\ Len(sink[c1]) > 0
        /\ result[c1].state = "resolved"
        /\ pc[c2] = "complete" /\ status[c2] = 404
        /\ result[c2].state = "rejected"
        /\ sink[c2] = <<>>

\* C14: headers with a status that is not 200 neither resolve nor reject and
\* start no pipe: the promise is pending, and the callback not called, until
\* the completion.
C14_Non200HeadersPending ==
    \A c \in Calls :
        (pc[c] = "responded" /\ status[c] # 200) =>
            /\ result[c] = Pending
            /\ ~piped[c]
            /\ doneLog[c] = <<>>

\* The body of a 201 response has arrived and the promise is still pending.
C14_Witness ==
    \E c \in Calls :
        /\ pc[c] = "responded"
        /\ status[c] = 201
        /\ Len(respBody[c]) > 0
        /\ result[c].state = "pending"

\* C15: a completion without error on status 200 finds the promise resolved
\* by the headers and leaves it as it is, so it is never pending afterwards.
C15_Resolved200Completion ==
    /\ [](\A c \in Calls :
            (Completed(c) /\ completion[c].statusCode = 200) =>
                result[c] = [state |-> "resolved", value |-> Handle(c)])
    /\ [][\A c \in Calls :
            (status[c] = 200 /\ completion[c].t = "none"
               /\ completion'[c].t = "complete"
               /\ completion'[c].error = Null) =>
                /\ result[c].state = "resolved"
                /\ result'[c] = result[c]]_vars

\* A 200 response completed without error after its body was streamed.
C15_Witness ==
    \E c \in Calls :
        /\ Completed(c)
        /\ completion[c].statusCode = 200
        /\ Len(sink[c]) > 0
        /\ doneLog[c] = <<Null>>

\* C16: the request is issued only after applyToRequest completed on the
\* descriptor; when applyToRequest fails the promise is rejected with that
\* failure, no request is issued and nothing is written to the sink.
C16_ApplyBeforeRequest ==
    \A c \in Calls :
        /\ pc[c] = "applying" =>
              /\ applyCalls[c] = 1
              /\ httpRequests[c] = 0
              /\ reqOptions[c].auth = "none"
        /\ httpRequests[c] > 0 =>
              /\ applyCalls[c] = 1
              /\ reqOptions[c].auth = "applied"
        /\ pc[c] = "applyFailed" =>
              /\ result[c].state = "rejected"
              /\ result[c].value \in ApplyErrors
              /\ httpRequests[c] = 0
              /\ sink[c] = <<>>
              /\ status[c] = 0

\* applyToRequest failed for one invocation and completed for the other,
\* whose request is out.
C16_Witness ==
    \E c1, c2 \in Calls :
        /\ pc[c1] = "applyFailed"
        /\ result[c1].state = "rejected"
        /\ pc[c2] = "requested"
        /\ httpRequests[c2] = 1

\* C17: the promise and the completion callback never diverge: the callback
\* gets a non-null error only if the promise is rejected and null only if it
\* is resolved, also when the transport fails after a 200 response resolved
\* the promise.
C17_CallbackAgreesWithPromise ==
    \A c \in Calls :
        \A i \in 1..Len(doneLog[c]) :
            /\ doneLog[c][i] # Null => result[c].state = "rejected"
            /\ doneLog[c][i] = Null => result[c].state = "resolved"

\* C18: a fifth argument that is a function is the completion callback and
\* the sixth argument the options; any other fifth argument is the options,
\* the callback is the no-op default and the sixth argument is ignored.
C18_ArgumentDispatch ==
    \A c \in Calls :
        args[c] # NotCalled =>
            LET fifth == args[c].doneOrOptions
                sixth == args[c].options
                used == IF fifth.t = "function" THEN sixth ELSE fifth
                props == IF used.t = "object" THEN used.props ELSE EmptyProps
            IN  /\ fifth.t = "function" => done[c] = fifth
                /\ fifth.t # "function" => done[c] = Fn("noop")
                /\ callerOptions[c] = used
                /\ reqOptions[c] # Undefined =>
                      (DOMAIN reqOptions[c].qs) \ {"container"} =
                          (DOMAIN props) \ {"container"}

\* log() was called with options as fifth argument and other options as
\* sixth, and the request is out with the fifth alone in its query.
C18_Witness ==
    \E c \in Calls :
        /\ httpRequests[c] = 1
        /\ args[c].doneOrOptions = Obj([k \in {"follow"} |-> Bool(TRUE)])
        /\ args[c].options.t = "object"
        /\ "previous" \in DOMAIN args[c].options.props
        /\ DOMAIN reqOptions[c].qs = {"follow", "container"}
        /\ done[c] = Fn("noop")

====
